---------------------------- MODULE Spec2Model ----------------------------
(***************************************************************************)
(* Model of ComfyUI-OneAPI's execute request (oneapi.py): format           *)
(* classification, title-marker parameter binding, output registration,   *)
(* submission to the job engine and the history poll loop with its        *)
(* artifact aggregation.                                                   *)
(*                                                                         *)
(* Representation.  A Python str is a sequence of atoms; an atom is a      *)
(* TLA+ string standing for a non-empty piece of text.  The characters    *)
(* the code looks at ("$", ".", ",", " ") are atoms of their own, the     *)
(* word "output" is an atom of its own, and no other atom contains one of *)
(* those characters or begins with "output" (file-name extensions such as *)
(* ".png" and URL bodies are atoms that only splitext / startswith read). *)
(* A Python dict is an ordered dict: a sequence of [k, v] records with    *)
(* distinct keys, in insertion order.                                      *)
(***************************************************************************)
EXTENDS Integers, Sequences, FiniteSets, TLC

\* ------------------------------------------------------------------ bounds

\* largest caller-supplied timeout (seconds)
MaxTimeout == 2
\* largest time one loop iteration's poll + sleep(1.0) takes (seconds, >= 1)
MaxStep == 2
\* media resolutions whose outcome is chosen per bind
MaxUploads == 2

\* ----------------------------------------------------------- str helpers

RECURSIVE IndexOf(_, _, _)
\* first index >= i of atom a in s, 0 when absent (str.find)
IndexOf(s, a, i) ==
    IF i > Len(s) THEN 0
    ELSE IF s[i] = a THEN i
    ELSE IndexOf(s, a, i + 1)

\* a in s
Contains(s, a) == IndexOf(s, a, 1) # 0

\* s.startswith(p)
StartsWith(s, p) ==
    /\ Len(s) >= Len(p)
    /\ \A i \in 1..Len(p) : s[i] = p[i]

RECURSIVE Split(_, _)
\* s.split(sep): the pieces between the occurrences of sep
Split(s, sep) ==
    LET i == IndexOf(s, sep, 1)
    IN  IF i = 0 THEN <<s>>
        ELSE <<SubSeq(s, 1, i - 1)>> \o Split(SubSeq(s, i + 1, Len(s)), sep)

\* s.split(sep, 1) for an s that contains sep: <<before, after>>
SplitOnce(s, sep) ==
    LET i == IndexOf(s, sep, 1)
    IN  <<SubSeq(s, 1, i - 1), SubSeq(s, i + 1, Len(s))>>

RECURSIVE LStrip(_)
LStrip(s) == IF s # <<>> /\ Head(s) = " " THEN LStrip(Tail(s)) ELSE s

RECURSIVE RStrip(_)
RStrip(s) ==
    IF s # <<>> /\ s[Len(s)] = " " THEN RStrip(SubSeq(s, 1, Len(s) - 1)) ELSE s

\* s.strip()
Strip(s) == RStrip(LStrip(s))

RECURSIVE Join(_, _)
\* sep.join(parts)
Join(parts, sep) ==
    IF parts = <<>> THEN <<>>
    ELSE IF Len(parts) = 1 THEN parts[1]
    ELSE parts[1] \o sep \o Join(Tail(parts), sep)

\* ---------------------------------------------------------- dict helpers

\* the keys of an ordered dict, in order
Keys(d) == [i \in 1..Len(d) |-> d[i].k]

\* k in d
HasKey(d, k) == \E i \in 1..Len(d) : d[i].k = k

\* d[k] for a key of d
Get(d, k) == d[CHOOSE i \in 1..Len(d) : d[i].k = k].v

\* d[k] = v: a present key keeps its position, a new key is appended
DictSet(d, k, v) ==
    IF HasKey(d, k)
    THEN [i \in 1..Len(d) |-> IF d[i].k = k THEN [k |-> k, v |-> v] ELSE d[i]]
    ELSE Append(d, [k |-> k, v |-> v])

\* a dict has distinct keys
IsDict(d) == \A i, j \in 1..Len(d) : d[i].k = d[j].k => i = j


\* ------------------------------------------------------------ data model

\* a JSON value bound to a parameter or held by an input field: a str, or
\* some other JSON value (number, list, link) whose content is v
Str(s) == [isStr |-> TRUE, v |-> s]
NonStr(s) == [isStr |-> FALSE, v |-> s]

\* a node of an API-format workflow
Node(class_type, hasInputs, inputs, hasMeta, hasTitle, title) ==
    [isDict |-> TRUE, isList |-> FALSE,
     class_type |-> class_type, hasInputs |-> hasInputs, inputs |-> inputs,
     hasMeta |-> hasMeta, hasTitle |-> hasTitle, title |-> title]

\* a top-level value that is no node: a list (isList) or a scalar
NonNode(isList) ==
    [isDict |-> FALSE, isList |-> isList,
     class_type |-> "", hasInputs |-> FALSE, inputs |-> <<>>,
     hasMeta |-> FALSE, hasTitle |-> FALSE, title |-> <<>>]

\* an exception in flight: raised, with str(e) = msg
NoExc == [raised |-> FALSE, msg |-> <<>>]
Raise(msg) == [raised |-> TRUE, msg |-> msg]

MEDIA_UPLOAD_NODE_TYPES == {"LoadImage", "VHS_LoadAudioUpload", "VHS_LoadVideo"}

_is_valid_node(node_data) ==
    node_data.isDict /\ node_data.hasMeta /\ node_data.hasTitle

\* -------------------------------------------------- parameter binding

_set_node_param(node_data, input_field, param_value) ==
    [node_data EXCEPT !.hasInputs = TRUE,
                      !.inputs = DictSet(IF node_data.hasInputs THEN @ ELSE <<>>,
                                         input_field, param_value)]

\* the outcome of one media resolution, chosen by the remote host and the
\* engine's upload endpoint: the download's status, the upload's status and
\* the upload response's name (hasName FALSE: the response has no 'name')
UploadOutcomes ==
    { [download |-> 200, upload |-> 200, hasName |-> TRUE, name |-> <<"up", ".png">>],
      [download |-> 200, upload |-> 200, hasName |-> FALSE, name |-> <<>>],
      [download |-> 404, upload |-> 200, hasName |-> TRUE, name |-> <<"up", ".png">>],
      [download |-> 200, upload |-> 500, hasName |-> TRUE, name |-> <<"up", ".png">>] }

\* one HTTP exchange: the request, the response's status (0: the client
\* raised) and what the response's JSON carried (a name, a prompt id)
Exchange(op, url, status, reply) ==
    [op |-> op, url |-> url, status |-> status, reply |-> reply]

UploadUrl == <<"http://", "127.0.0.1:8188/upload/image">>
PromptUrl == <<"http://", "127.0.0.1:8188/prompt">>

\* the exchanges of one resolution, in order
_upload_requests(media_url, outcome) ==
    <<Exchange("GET", media_url, outcome.download, <<>>)>> \o
    (IF outcome.download = 200
     THEN <<Exchange("POST", UploadUrl, outcome.upload,
                     IF outcome.hasName THEN outcome.name ELSE <<>>)>>
     ELSE <<>>)

\* _upload_media_from_source without the download's status test
_upload_media_unchecked_download(media_url, outcome) ==
    IF outcome.upload # 200
    THEN [exc |-> Raise(<<"Failed to upload media: HTTP ", "500">>), value |-> <<>>]
    ELSE [exc |-> NoExc,
          value |-> IF outcome.hasName THEN outcome.name ELSE <<>>]

\* [exc, value]: the uploaded media's name, or the exception raised
_upload_media_from_source(media_url, outcome) ==
    IF outcome.download # 200
    THEN [exc |-> Raise(<<"Failed to download media: HTTP ", "404">>), value |-> <<>>]
    ELSE IF outcome.upload # 200
    THEN [exc |-> Raise(<<"Failed to upload media: HTTP ", "500">>), value |-> <<>>]
    ELSE [exc |-> NoExc,
          value |-> IF outcome.hasName THEN outcome.name ELSE <<>>]

\* The binder's state while it walks one workflow: the node being edited,
\* the exception in flight, the URLs handed to the resolver so far and the
\* HTTP requests sent so far.
BindState(node, exc, resolved, sent) ==
    [node |-> node, exc |-> exc, resolved |-> resolved, sent |-> sent]

\* _handle_media_upload with a URL test for "http://" alone
_handle_media_upload_http_only(st, input_field, param_value, oracle) ==
    LET node1 == IF st.node.hasInputs THEN st.node
                 ELSE [st.node EXCEPT !.hasInputs = TRUE, !.inputs = <<>>]
    IN  IF /\ param_value.isStr
           /\ StartsWith(param_value.v, <<"http://">>)
        THEN LET outcome == oracle[Len(st.resolved) + 1]
                 r == _upload_media_from_source(param_value.v, outcome)
                 resolved == Append(st.resolved, param_value.v)
                 sent == st.sent \o _upload_requests(param_value.v, outcome)
             IN  IF r.exc.raised
                 THEN BindState(node1,
                                Raise(<<"Media upload failed: ">> \o r.exc.msg),
                                resolved, sent)
                 ELSE BindState(_set_node_param(node1, input_field, Str(r.value)),
                                NoExc, resolved, sent)
        ELSE [st EXCEPT !.node = _set_node_param(node1, input_field, param_value)]

\* lines 292-319
_handle_media_upload(st, input_field, param_value, oracle) ==
    LET node1 == IF st.node.hasInputs THEN st.node
                 ELSE [st.node EXCEPT !.hasInputs = TRUE, !.inputs = <<>>]
    IN  IF /\ param_value.isStr
           /\ \/ StartsWith(param_value.v, <<"http://">>)
              \/ StartsWith(param_value.v, <<"https://">>)
        THEN LET outcome == oracle[Len(st.resolved) + 1]
                 r == _upload_media_from_source(param_value.v, outcome)
                 resolved == Append(st.resolved, param_value.v)
                 sent == st.sent \o _upload_requests(param_value.v, outcome)
             IN  IF r.exc.raised
                 THEN BindState(node1,
                                Raise(<<"Media upload failed: ">> \o r.exc.msg),
                                resolved, sent)
                 ELSE BindState(_set_node_param(node1, input_field, Str(r.value)),
                                NoExc, resolved, sent)
        ELSE [st EXCEPT !.node = _set_node_param(node1, input_field, param_value)]

_process_param_marker(st, var_spec, params, oracle) ==
    IF ~Contains(var_spec, ".") THEN st
    ELSE LET sp == SplitOnce(var_spec, ".")
             var_name == sp[1]
             input_field == sp[2]
         IN  IF ~HasKey(params, var_name) THEN st
             ELSE IF st.node.class_type \in MEDIA_UPLOAD_NODE_TYPES
             THEN _handle_media_upload(st, input_field, Get(params, var_name), oracle)
             ELSE [st EXCEPT !.node =
                      _set_node_param(@, input_field, Get(params, var_name))]

RECURSIVE _process_parts(_, _, _, _)
\* the loop of _process_node_params over the title's parts
_process_parts(st, parts, params, oracle) ==
    IF parts = <<>> \/ st.exc.raised THEN st
    ELSE LET part == Strip(Head(parts))
             st1 == IF ~StartsWith(part, <<"$">>) THEN st
                    ELSE _process_param_marker(st, Tail(part), params, oracle)
         IN  _process_parts(st1, Tail(parts), params, oracle)

_process_node_params(st, params, oracle) ==
    _process_parts(st, Split(st.node.title, ","), params, oracle)

RECURSIVE _apply_nodes(_, _, _, _, _)
\* the loop of _apply_params_to_workflow over the copied workflow's nodes,
\* from node i on; acc is the copy as edited so far
_apply_nodes(acc, i, st, params, oracle) ==
    IF i > Len(acc) \/ st.exc.raised
    THEN [workflow |-> acc, exc |-> st.exc, resolved |-> st.resolved, sent |-> st.sent]
    ELSE IF ~_is_valid_node(acc[i].v)
    THEN _apply_nodes(acc, i + 1, st, params, oracle)
    ELSE LET st1 == _process_node_params([st EXCEPT !.node = acc[i].v], params, oracle)
             acc1 == [acc EXCEPT ![i] = [k |-> acc[i].k, v |-> st1.node]]
         IN  _apply_nodes(acc1, i + 1, st1, params, oracle)

\* a dict object: its identity and its content
Object(id, value) == [id |-> id, value |-> value]

\* "workflow = workflow" for the copy: the loop edits the argument itself
_no_copy(obj) == obj

\* copy.deepcopy(obj): another object with equal content
deepcopy(obj) == Object("copy", obj.value)

\* input: the argument's content after the call (the loop edits the object
\* the copy is, in place, also when it raises part-way).
\* [workflow, exc, resolved, sent]: the bound copy (returned only when exc
\* is not raised), the exception, and the resolver's calls and requests
_apply_params_to_workflow(workflow, params, oracle) ==
    LET copy == deepcopy(Object("input", workflow))
        r == _apply_nodes(copy.value, 1,
                 BindState(Node("", FALSE, <<>>, FALSE, FALSE, <<>>), NoExc, <<>>, <<>>),
                 params, oracle)
    IN  [workflow |-> r.workflow, exc |-> r.exc, resolved |-> r.resolved,
         sent |-> r.sent,
         input |-> IF copy.id = "input" THEN r.workflow ELSE workflow]

\* -------------------------------------------------- output registration

RECURSIVE _scan_output_parts(_, _)
\* the loop over one title's parts: [exc, output_var]; output_var <<>> is None
_scan_output_parts(parts, output_var) ==
    IF parts = <<>> THEN [exc |-> NoExc, output_var |-> output_var]
    ELSE LET part == Strip(Head(parts))
         IN  IF StartsWith(part, <<"$", "output">>)
             THEN IF Contains(part, ".")
                  THEN LET name == SplitOnce(part, ".")[2]
                       IN  IF name = <<>>
                           THEN [exc |-> Raise(<<"Invalid output marker format (empty name): ">> \o part),
                                 output_var |-> <<>>]
                           ELSE _scan_output_parts(Tail(parts), name)
                  ELSE [exc |-> Raise(<<"Invalid output marker format (missing name): ">>
                                      \o part \o <<". Use $output.name format.">>),
                        output_var |-> <<>>]
             ELSE _scan_output_parts(Tail(parts), output_var)

RECURSIVE _extract_nodes(_, _, _)
_extract_nodes(workflow, i, output_id_2_var) ==
    IF i > Len(workflow) THEN [exc |-> NoExc, output_id_2_var |-> output_id_2_var]
    ELSE IF ~_is_valid_node(workflow[i].v)
    THEN _extract_nodes(workflow, i + 1, output_id_2_var)
    ELSE LET r == _scan_output_parts(Split(workflow[i].v.title, ","), <<>>)
         IN  IF r.exc.raised THEN [exc |-> r.exc, output_id_2_var |-> <<>>]
             ELSE _extract_nodes(workflow, i + 1,
                      IF r.output_var # <<>>
                      THEN DictSet(output_id_2_var, workflow[i].k, r.output_var)
                      ELSE output_id_2_var)

\* [exc, output_id_2_var]: node id -> variable name of the explicit markers
_extract_output_nodes(workflow) == _extract_nodes(workflow, 1, <<>>)

\* ------------------------------------------------- artifact aggregation

\* one entry of a node output's "images" / "gifs" / "audio" list:
\* form "dict" {filename, subfolder?, type?}, form "pair" [filename, type],
\* or any other JSON value (form "invalid")
Media(form, filename, subfolder, hasType, type) ==
    [form |-> form, filename |-> filename, subfolder |-> subfolder,
     hasType |-> hasType, type |-> type]

\* a node's output record; an absent media key is the empty list
\* (node_output.get(key, [])); text is [kind, v] with kind "str" (v a str),
\* "list" (v a list of str) or "other" (v the str() of the value)
NodeOutput(images, gifs, audio, hasText, text) ==
    [images |-> images, gifs |-> gifs, audio |-> audio,
     hasText |-> hasText, text |-> text]

image_exts == {".png", ".jpg", ".jpeg", ".webp", ".bmp", ".tiff"}
video_exts == {".mp4", ".mov", ".avi", ".webm", ".gif"}
audio_exts == {".mp3", ".wav", ".flac", ".ogg", ".aac", ".m4a", ".wma", ".opus"}

\* str.lower() of an extension atom
Lower(a) ==
    CASE a = ".PNG" -> ".png"
      [] a = ".MP4" -> ".mp4"
      [] OTHER -> a

\* os.path.splitext(filename)[1]: the last atom when it is an extension
\* (".xyz") and not the whole name, else ""
SplitExt(filename) ==
    LET last == filename[Len(filename)]
    IN  IF Len(filename) > 1
           /\ Lower(last) \in image_exts \cup video_exts \cup audio_exts \cup {".txt"}
        THEN last ELSE ""

\* the URL of one media entry
_media_url(m, base_url) ==
    LET subfolder == IF m.form = "pair" THEN <<>> ELSE m.subfolder
        media_type == IF m.form = "pair" \/ m.hasType THEN m.type ELSE <<"output">>
    IN  base_url \o <<"/view?filename=">> \o m.filename
          \o (IF subfolder # <<>> THEN <<"&subfolder=">> \o subfolder ELSE <<>>)
          \o (IF media_type # <<>> THEN <<"&type=">> \o media_type ELSE <<>>)

RECURSIVE _split_list(_, _, _)
\* the inner loop of _split_media_by_suffix over one list; acc is
\* [images, videos, audios]
_split_list(entries, base_url, acc) ==
    IF entries = <<>> THEN acc
    ELSE LET m == Head(entries)
             rest == Tail(entries)
         IN  IF m.form \notin {"pair", "dict"}
             THEN _split_list(rest, base_url, acc)
             ELSE LET url == _media_url(m, base_url)
                      ext == Lower(SplitExt(m.filename))
                  IN  _split_list(rest, base_url,
                        IF ext \in image_exts
                        THEN [acc EXCEPT !.images = Append(@, url)]
                        ELSE IF ext \in video_exts
                        THEN [acc EXCEPT !.videos = Append(@, url)]
                        ELSE IF ext \in audio_exts
                        THEN [acc EXCEPT !.audios = Append(@, url)]
                        ELSE acc)

_split_media_by_suffix(node_output, base_url) ==
    _split_list(node_output.audio, base_url,
      _split_list(node_output.gifs, base_url,
        _split_list(node_output.images, base_url,
          [images |-> <<>>, videos |-> <<>>, audios |-> <<>>])))

RECURSIVE _map_from(_, _, _, _)
_map_from(output_id_2_var, output_id_2_media, i, result) ==
    IF i > Len(output_id_2_media) THEN result
    ELSE LET node_id == output_id_2_media[i].k
             var_name == IF HasKey(output_id_2_var, node_id)
                         THEN Get(output_id_2_var, node_id) ELSE node_id
         IN  _map_from(output_id_2_var, output_id_2_media, i + 1,
                       DictSet(result, var_name, output_id_2_media[i].v))

\* var name -> list, each node's list stored under its variable name
_map_outputs_by_var(output_id_2_var, output_id_2_media) ==
    _map_from(output_id_2_var, output_id_2_media, 1, <<>>)

RECURSIVE _extend_flat_list_from_dict(_)
_extend_flat_list_from_dict(media_dict) ==
    IF media_dict = <<>> THEN <<>>
    ELSE Head(media_dict).v \o _extend_flat_list_from_dict(Tail(media_dict))

\* the list a node's "text" field contributes
_texts_of(text) ==
    IF text.kind = "str" THEN <<text.v>>
    ELSE IF text.kind = "list" THEN text.v
    ELSE <<text.v>>

RECURSIVE _collect(_, _, _, _)
\* the loop over prompt_history["outputs"]: the four node id -> list dicts
_collect(outputs, i, base_url, acc) ==
    IF i > Len(outputs) THEN acc
    ELSE LET node_id == outputs[i].k
             node_output == outputs[i].v
             m == _split_media_by_suffix(node_output, base_url)
             a1 == IF m.images # <<>>
                   THEN [acc EXCEPT !.images = DictSet(@, node_id, m.images)] ELSE acc
             a2 == IF m.videos # <<>>
                   THEN [a1 EXCEPT !.videos = DictSet(@, node_id, m.videos)] ELSE a1
             a3 == IF m.audios # <<>>
                   THEN [a2 EXCEPT !.audios = DictSet(@, node_id, m.audios)] ELSE a2
             a4 == IF node_output.hasText
                   THEN [a3 EXCEPT !.texts = DictSet(@, node_id, _texts_of(node_output.text))]
                   ELSE a3
         IN  _collect(outputs, i + 1, base_url, a4)

\* result.pop(key, None)
Pop(result, key) == [x \in DOMAIN result \ {key} |-> result[x]]

\* not result.get(key): absent, or an empty list / dict
Falsy(result, key) == key \notin DOMAIN result \/ result[key] = <<>>

\* result[key] = v
Put(result, key, v) == (key :> v) @@ result

ArtifactTypes == <<"images", "videos", "audios", "texts">>
ByVar(t) == CASE t = "images" -> "images_by_var"
              [] t = "videos" -> "videos_by_var"
              [] t = "audios" -> "audios_by_var"
              [] t = "texts" -> "texts_by_var"

RECURSIVE _fill(_, _, _, _)
\* "Map by variable name": for each type whose node id -> list dict is not
\* empty, set T_by_var and T
_fill(result, output_id_2_var, by_id, i) ==
    IF i > Len(ArtifactTypes) THEN result
    ELSE LET t == ArtifactTypes[i]
             by_var == _map_outputs_by_var(output_id_2_var, by_id[t])
         IN  _fill(IF by_id[t] # <<>>
                   THEN Put(Put(result, ByVar(t), by_var),
                            t, _extend_flat_list_from_dict(by_var))
                   ELSE result,
                   output_id_2_var, by_id, i + 1)

RECURSIVE _remove_empty(_, _)
\* "Remove empty fields"
_remove_empty(result, i) ==
    IF i > Len(ArtifactTypes) THEN result
    ELSE LET t == ArtifactTypes[i]
             r1 == IF Falsy(result, t) THEN Pop(result, t) ELSE result
             r2 == IF Falsy(r1, ByVar(t)) THEN Pop(r1, ByVar(t)) ELSE r1
         IN  _remove_empty(r2, i + 1)

\* the result the loop returns for a history entry that has outputs
_completed(result, outputs, base_url, output_id_2_var) ==
    LET r0 == Put(Put(result, "outputs", outputs), "status", "completed")
        by_id == _collect(outputs, 1, base_url,
                          [images |-> <<>>, videos |-> <<>>,
                           audios |-> <<>>, texts |-> <<>>])
    IN  _remove_empty(_fill(r0, output_id_2_var, by_id, 1), 1)

\* the error text for a history entry whose status_str is "error";
\* messages is a list of [type, exception_message] pairs (None: hasMessages FALSE)
RECURSIVE _errors(_)
_errors(messages) ==
    IF messages = <<>> THEN <<>>
    ELSE (IF Head(messages).type = "execution_error"
          THEN <<Head(messages).exception_message>> ELSE <<>>)
         \o _errors(Tail(messages))

_error_message(status) ==
    IF status.hasMessages /\ status.messages # <<>>
    THEN Join(_errors(status.messages), <<"\n">>)
    ELSE <<"Unknown error">>

\* ------------------------------------------------- format classification

\* str.isdigit() of a key
\* the atom "^2" stands for the character SUPERSCRIPT TWO, a digit that is no
\* decimal digit: str.isdigit() is true of it, str.isdecimal() is not
DigitAtoms == {"0", "1", "2", "3", "12", "^2"}

IsDigit(key) == key # <<>> /\ \A i \in 1..Len(key) : key[i] \in DigitAtoms

\* workflow_format.adjust_workflow_format; a workflow value is
\* [isDict, items]: items the ordered dict when the value is a mapping
adjust_workflow_format(workflow) ==
    IF workflow.isDict
    THEN IF HasKey(workflow.items, <<"nodes">>) /\ Get(workflow.items, <<"nodes">>).isList
         THEN "ui"
         ELSE IF (\A i \in 1..Len(workflow.items) : IsDigit(workflow.items[i].k))
                 /\ Len(workflow.items) > 0
         THEN "api"
         ELSE "invalid"
    ELSE "invalid"

\* workflow_ui_2_api.adjust_workflow_format: the same test, written with an
\* early return for a value that is no mapping
ui2api_adjust_workflow_format(workflow) ==
    IF ~workflow.isDict THEN "invalid"
    ELSE IF HasKey(workflow.items, <<"nodes">>) /\ Get(workflow.items, <<"nodes">>).isList
    THEN "ui"
    ELSE IF (\A i \in 1..Len(workflow.items) : IsDigit(workflow.items[i].k))
            /\ Len(workflow.items) > 0
    THEN "api"
    ELSE "invalid"

\* ------------------------------------------------------------ submission

\* the body _queue_prompt posts: prompt_data, after update(prompt_ext_params)
RECURSIVE _update(_, _)
_update(d, other) ==
    IF other = <<>> THEN d
    ELSE _update(DictSet(d, Head(other).k, Head(other).v), Tail(other))

_prompt_data(workflow, client_id, prompt_ext_params) ==
    LET prompt_data == <<[k |-> <<"prompt">>, v |-> workflow],
                         [k |-> <<"client_id">>, v |-> client_id]>>
    IN  IF prompt_ext_params # <<>> THEN _update(prompt_data, prompt_ext_params)
        ELSE prompt_data

\* what the engine's queue endpoint may answer to the POST: a status and a
\* JSON body with or without prompt_id, or no answer (the client raises)
QueueOutcomes ==
    { [raises |-> FALSE, status |-> 200, prompt_id |-> <<"p1">>],
      [raises |-> FALSE, status |-> 200, prompt_id |-> <<>>],
      [raises |-> FALSE, status |-> 400, prompt_id |-> <<>>],
      [raises |-> TRUE, status |-> 0, prompt_id |-> <<>>] }

\* _queue_prompt without the test for a missing prompt_id
_queue_prompt_any_id(outcome) ==
    IF outcome.raises
    THEN [exc |-> Raise(<<"Cannot connect to host 127.0.0.1:8188">>), prompt_id |-> <<>>]
    ELSE IF outcome.status # 200
    THEN [exc |-> Raise(<<"Failed to submit workflow: [", "400", "] ">>), prompt_id |-> <<>>]
    ELSE [exc |-> NoExc, prompt_id |-> outcome.prompt_id]

\* [exc, prompt_id] of _queue_prompt for an outcome
_queue_prompt(outcome) ==
    IF outcome.raises
    THEN [exc |-> Raise(<<"Cannot connect to host 127.0.0.1:8188">>), prompt_id |-> <<>>]
    ELSE IF outcome.status # 200
    THEN [exc |-> Raise(<<"Failed to submit workflow: [", "400", "] ">>), prompt_id |-> <<>>]
    ELSE IF outcome.prompt_id = <<>>
    THEN [exc |-> Raise(<<"Failed to get prompt_id: ">>), prompt_id |-> <<>>]
    ELSE [exc |-> NoExc, prompt_id |-> outcome.prompt_id]

\* _get_base_url: the default, or http://<Host> when the request has a Host
\* header (requests here carry no forwarding header and an http URL)
_get_base_url(request) ==
    IF request.hasHost THEN <<"http", "://">> \o request.host
    ELSE <<"http://", "127.0.0.1:8188">>

\* -------------------------------------------------------- request inputs

Item(k, v) == [k |-> k, v |-> v]

URL1 == <<"https://", "example.com/a", ".png">>
URL2 == <<"http://", "example.com/m", ".png">>
Link == NonStr(<<"1", "0">>)

TitleImg == <<"$", "img", ".", "image">>
TitleImgMask == <<"$", "img", ".", "image", ",", " ", "$", "mask", ".", "mask">>
TitleFinal == <<"$", "output", ".", "final">>
TitlePrompt == <<"Prompt", ",", " ", "$", "text", ".", "prompt", ",", " ",
                 "$", "output", ".", "final">>
TitleBare == <<"Save", ",", " ", "$", "output">>
TitleEmptyName == <<"$", "output", ".", " ">>
TitleOut2 == <<"$", "output", ".", "2">>
TitleX == <<"Prompt", ",", " ", "$", "x", ",", " ", "$", "text", ".", "prompt">>
TitleOutputs == <<"$", "output", "s", ",", " ", "$", "text", ".", "prompt">>

LoadImage(title) == Node("LoadImage", TRUE, <<>>, TRUE, TRUE, title)
SaveImage(title) ==
    Node("SaveImage", TRUE, <<Item(<<"images">>, Link)>>, TRUE, TRUE, title)
Encode(title) ==
    Node("CLIPTextEncode", TRUE, <<Item(<<"prompt">>, Str(<<"old">>))>>, TRUE, TRUE, title)
Untitled == Node("SaveImage", TRUE, <<Item(<<"images">>, Link)>>, TRUE, FALSE, <<>>)

Dict(items) == [isDict |-> TRUE, items |-> items]

\* the workflow values a request may carry
Workflows ==
    { \* the spec's scenario: a media loader and a named output
      Dict(<<Item(<<"1">>, LoadImage(TitleImg)), Item(<<"2">>, SaveImage(TitleFinal))>>),
      \* a binding and an output marker in one title; two nodes named "final"
      Dict(<<Item(<<"1">>, Encode(TitlePrompt)), Item(<<"2">>, SaveImage(TitleFinal))>>),
      \* a bare $output after a media binding
      Dict(<<Item(<<"1">>, LoadImage(TitleImg)), Item(<<"2">>, SaveImage(TitleBare))>>),
      \* an output marker with an empty name
      Dict(<<Item(<<"1">>, SaveImage(TitleEmptyName))>>),
      \* a variable name that is another node's id; a node without a title
      Dict(<<Item(<<"1">>, SaveImage(TitleOut2)), Item(<<"2">>, Untitled)>>),
      \* two media bindings on a node without inputs
      Dict(<<Item(<<"1">>, Node("LoadImage", FALSE, <<>>, TRUE, TRUE, TitleImgMask)),
             Item(<<"2">>, Untitled)>>),
      \* a directive without a field separator: $x, and $outputs
      Dict(<<Item(<<"1">>, Encode(TitleX)), Item(<<"2">>, SaveImage(TitleFinal))>>),
      Dict(<<Item(<<"1">>, Encode(TitleOutputs)), Item(<<"2">>, SaveImage(TitleFinal))>>),
      \* UI format, and invalid ones
      Dict(<<Item(<<"nodes">>, NonNode(TRUE))>>),
      Dict(<<Item(<<"nodes">>, NonNode(FALSE)), Item(<<"1">>, Untitled)>>),
      Dict(<<>>),
      [isDict |-> FALSE, items |-> <<>>] }

\* the params maps a request may carry
ParamMaps ==
    { <<>>,
      <<Item(<<"img">>, Str(URL1)), Item(<<"text">>, Str(<<"a cat">>)),
        Item(<<"mask">>, Str(URL2))>>,
      <<Item(<<"img">>, Str(<<"local", ".png">>)), Item(<<"output">>, Str(<<"x">>)),
        Item(<<"text">>, NonStr(<<"42">>))>>,
      <<Item(<<"img">>, NonStr(<<"7">>)), Item(<<"mask">>, Str(<<"ftp://", "host/m", ".png">>))>> }

\* timeout: None, or a number of seconds
Timeouts ==
    {[isNone |-> TRUE, v |-> 0]} \cup {[isNone |-> FALSE, v |-> n] : n \in 0..MaxTimeout}

\* prompt_ext_params: none, an extra engine parameter, and mappings that
\* hold the keys prompt or client_id themselves
ExtParams ==
    { <<>>,
      <<Item(<<"front">>, <<"true">>)>>,
      <<Item(<<"prompt">>, <<Item(<<"9">>, Untitled)>>)>>,
      <<Item(<<"front">>, <<"true">>), Item(<<"client_id">>, <<"callers">>)>> }

\* the requests; those with extra engine parameters do not wait for the
\* result
Requests ==
    [workflow : Workflows, params : ParamMaps, wait_for_result : BOOLEAN,
     timeout : Timeouts, prompt_ext_params : {<<>>},
     hasHost : {FALSE}, host : {<<"comfy.example">>}]
    \cup
    [workflow : Workflows, params : ParamMaps, wait_for_result : {FALSE},
     timeout : {[isNone |-> TRUE, v |-> 0]}, prompt_ext_params : ExtParams \ {<<>>},
     hasHost : {FALSE}, host : {<<"comfy.example">>}]

\* ---------------------------------------------------------- the engine

PngA == Media("dict", <<"a", ".png">>, <<>>, TRUE, <<"output">>)
PngB == Media("pair", <<"b", ".png">>, <<>>, TRUE, <<"temp">>)
Mp4C == Media("dict", <<"c", ".MP4">>, <<"clips">>, FALSE, <<>>)
WavX == Media("dict", <<"x", ".wav">>, <<>>, TRUE, <<>>)
TxtD == Media("dict", <<"d", ".txt">>, <<>>, TRUE, <<"output">>)
Junk == Media("invalid", <<>>, <<>>, FALSE, <<>>)

NoText == [kind |-> "str", v |-> <<>>]

\* the outputs mappings the engine may report, keyed by node id
OutputSets ==
    { <<Item(<<"2">>, NodeOutput(<<PngA>>, <<>>, <<>>, FALSE, NoText))>>,
      <<Item(<<"1">>, NodeOutput(<<PngA>>, <<>>, <<>>, FALSE, NoText)),
        Item(<<"2">>, NodeOutput(<<PngB>>, <<>>, <<>>, TRUE,
                                  [kind |-> "str", v |-> <<"hello">>]))>>,
      <<Item(<<"2">>, NodeOutput(<<>>, <<>>, <<>>, TRUE, [kind |-> "list", v |-> <<>>]))>>,
      <<Item(<<"1">>, NodeOutput(<<Junk, TxtD>>, <<Mp4C>>, <<WavX>>, TRUE,
                                  [kind |-> "list", v |-> <<<<"t1">>, <<"t2">>>>])),
        Item(<<"2">>, NodeOutput(<<>>, <<>>, <<>>, TRUE, [kind |-> "other", v |-> <<"7">>]))>>,
      <<>> }

Msg(type, exception_message) == [type |-> type, exception_message |-> exception_message]

\* the status.messages lists the engine may report with status_str "error"
MessageLists ==
    { <<>>,
      <<Msg("execution_start", <<>>), Msg("execution_interrupted", <<>>)>>,
      <<Msg("execution_start", <<>>), Msg("execution_error", <<"boom">>)>>,
      <<Msg("execution_error", <<"e1">>), Msg("execution_cached", <<>>),
        Msg("execution_error", <<"e2">>)>> }

Status(has, status_str, hasMessages, messages) ==
    [has |-> has, status_str |-> status_str,
     hasMessages |-> hasMessages, messages |-> messages]

\* the engine's history entry for the prompt id: present or not, its status
\* (has FALSE: no "status"), its outputs (hasOutputs FALSE: no "outputs"),
\* and the time its outputs became available
History(present, status, hasOutputs, outputs, at) ==
    [present |-> present, status |-> status, hasOutputs |-> hasOutputs,
     outputs |-> outputs, at |-> at]

NoHistory == History(FALSE, Status(FALSE, "", FALSE, <<>>), FALSE, <<>>, 0)

\* an entry still executing: no outputs, no error
Executing(h) ==
    h.present /\ ~h.hasOutputs /\ ~(h.status.has /\ h.status.status_str = "error")

\* the entries the engine may write at time t
HistoryEntries(t) ==
    {History(TRUE, Status(FALSE, "", FALSE, <<>>), FALSE, <<>>, 0)}
    \cup {History(TRUE, Status(TRUE, "success", TRUE, <<>>), TRUE, o, t) : o \in OutputSets}
    \cup {History(TRUE, Status(TRUE, "error", TRUE, m), FALSE, <<>>, 0) : m \in MessageLists}
    \cup {History(TRUE, Status(TRUE, "error", FALSE, <<>>), TRUE, <<>>, t)}

\* ------------------------------------------------------ the state machine

VARIABLES
    request,          \* the request's JSON data
    pc,               \* where execute_workflow is: start, bind, extract, submit,
                      \* wait, loop, poll, sleep, done
    workflow,         \* execute_workflow's workflow (an ordered dict of nodes)
    output_id_2_var,  \* the output registry
    prompt_id,        \* the engine's id for the submitted prompt (empty: none)
    result,           \* the result dict of execute_workflow / _wait_for_results
    response,         \* the HTTP response sent to the caller
    now,              \* time.time() - start_time
    history,          \* the engine's history entry for prompt_id
    sent,             \* the HTTP exchanges for media and submission, in order
    submitted,        \* the bodies posted to the queue endpoint, in order
    resolved,         \* the URLs handed to the media resolver, in order
    polls,            \* the number of history GETs issued
    last_poll,        \* how the latest history GET ended ("none": no GET yet)
    trace,            \* the stages run so far, each with its outcome
    data_workflow,    \* the dict data['workflow'] the handler was given, as
                      \* it is now
    ui_json,          \* the converter's and the classifiers' argument
    object_info,      \* the node schemas get_object_info returned
    api,              \* convert_ui_to_api's result
    labels,           \* the labels the two classifiers returned
    node_idx,         \* the index of the node convert_ui_to_api's loop is at
    cpc               \* where the conversion tool is: start, classified,
                      \* convert, done

\* the state of the conversion tool (workflow_ui_2_api.py)
toolVars == <<ui_json, object_info, api, labels, node_idx, cpc>>

vars == <<request, pc, workflow, output_id_2_var, prompt_id, result, response,
          now, history, sent, submitted, resolved, polls, last_poll, trace,
          data_workflow, toolVars>>

\* the conversion tool is not running
ToolIdle ==
    /\ ui_json = <<>>
    /\ object_info = <<>>
    /\ api = <<>>
    /\ labels = <<>>
    /\ node_idx = 0
    /\ cpc = "idle"

NoResponse == [sent |-> FALSE, http |-> 0, body |-> <<>>]

\* web.json_response(body, status=http)
JsonResponse(body, http) == [sent |-> TRUE, http |-> http, body |-> body]

\* the largest elapsed time a run with a deadline can see
MaxNow == MaxTimeout + MaxStep

Stage(step, ok) == [step |-> step, ok |-> ok]

Init ==
    /\ request \in Requests
    /\ pc = "start"
    /\ workflow = request.workflow.items
    /\ output_id_2_var = <<>>
    /\ prompt_id = <<>>
    /\ result = <<>>
    /\ response = NoResponse
    /\ now = 0
    /\ history = NoHistory
    /\ sent = <<>>
    /\ submitted = <<>>
    /\ resolved = <<>>
    /\ polls = 0
    /\ last_poll = "none"
    /\ trace = <<>>
    /\ data_workflow = request.workflow.items
    /\ ToolIdle

\* return web.json_response(...) / the handler's except clause
Return(body, http) ==
    /\ response' = JsonResponse(body, http)
    /\ pc' = "done"

\* lines 116-135: the workflow value's type, emptiness and format
Classify ==
    /\ pc = "start"
    /\ LET fmt == adjust_workflow_format(request.workflow)
       IN  \/ /\ ~request.workflow.isDict
              /\ Return("error" :> <<"Invalid workflow parameter">>, 400)
              /\ trace' = Append(trace, Stage("classify", FALSE))
           \/ /\ request.workflow.isDict /\ request.workflow.items = <<>>
              /\ Return("error" :> <<"Workflow data is missing">>, 400)
              /\ trace' = Append(trace, Stage("classify", FALSE))
           \/ /\ request.workflow.isDict /\ request.workflow.items # <<>>
              /\ fmt = "invalid"
              /\ Return("error" :> <<"Invalid workflow format">>, 400)
              /\ trace' = Append(trace, Stage("classify", FALSE))
           \/ /\ request.workflow.isDict /\ request.workflow.items # <<>>
              /\ fmt = "ui"
              /\ Return("error" :> <<"UI format workflow is not supported.">>, 400)
              /\ trace' = Append(trace, Stage("classify", FALSE))
           \/ /\ request.workflow.isDict /\ request.workflow.items # <<>>
              /\ fmt = "api"
              /\ pc' = "bind"
              /\ trace' = Append(trace, Stage("classify", TRUE))
              /\ UNCHANGED response
    /\ UNCHANGED <<toolVars, data_workflow, request, workflow, output_id_2_var, prompt_id, result, now,
                   history, sent, submitted, resolved, polls, last_poll>>

\* lines 137-139: bind the parameters, when there are any
ApplyParams ==
    /\ pc = "bind"
    /\ \/ /\ request.params = <<>>
          /\ pc' = "extract"
          /\ UNCHANGED <<workflow, response, sent, resolved, trace, data_workflow>>
       \/ /\ request.params # <<>>
          /\ \E oracle \in [1..MaxUploads -> UploadOutcomes] :
               LET r == _apply_params_to_workflow(workflow, request.params, oracle)
               IN  /\ data_workflow' = r.input
                   /\ sent' = sent \o r.sent
                   /\ resolved' = resolved \o r.resolved
                   /\ trace' = Append(trace, Stage("bind", ~r.exc.raised))
                   /\ IF r.exc.raised
                      THEN /\ Return("error" :> r.exc.msg, 500)
                           /\ UNCHANGED workflow
                      ELSE /\ workflow' = r.workflow
                           /\ pc' = "extract"
                           /\ UNCHANGED response
    /\ UNCHANGED <<toolVars, request, output_id_2_var, prompt_id, result, now, history,
                   submitted, polls, last_poll>>

\* lines 141-142: register the output markers
ExtractOutputs ==
    /\ pc = "extract"
    /\ LET r == _extract_output_nodes(workflow)
       IN  /\ trace' = Append(trace, Stage("extract", ~r.exc.raised))
           /\ IF r.exc.raised
              THEN /\ Return("error" :> r.exc.msg, 500)
                   /\ UNCHANGED output_id_2_var
              ELSE /\ output_id_2_var' = r.output_id_2_var
                   /\ pc' = "submit"
                   /\ UNCHANGED response
    /\ UNCHANGED <<toolVars, data_workflow, request, workflow, prompt_id, result, now, history, sent,
                   submitted, resolved, polls, last_poll>>

ClientId == <<"uuid4">>

\* lines 144-163: submit, and answer "queued" when the caller does not wait
QueuePrompt ==
    /\ pc = "submit"
    /\ \E outcome \in QueueOutcomes :
         LET r == _queue_prompt(outcome)
             queued == [status |-> "queued", prompt_id |-> r.prompt_id,
                        message |-> <<"Workflow submitted">>]
         IN  /\ sent' = Append(sent, Exchange("POST", PromptUrl,
                                               outcome.status, outcome.prompt_id))
             /\ submitted' = Append(submitted,
                    _prompt_data(workflow, ClientId, request.prompt_ext_params))
             /\ trace' = Append(trace, Stage("submit", ~r.exc.raised))
             /\ IF r.exc.raised
                THEN /\ Return("error" :> (<<"Failed to submit workflow: ">> \o r.exc.msg), 500)
                     /\ UNCHANGED <<prompt_id, result>>
                ELSE /\ prompt_id' = r.prompt_id
                     /\ result' = queued
                     /\ IF ~request.wait_for_result
                        THEN Return(queued, 200)
                        ELSE pc' = "wait" /\ UNCHANGED response
    /\ UNCHANGED <<toolVars, data_workflow, request, workflow, output_id_2_var, now, history, resolved,
                   polls, last_poll>>

\* lines 546-563: _wait_for_results is entered
WaitStart ==
    /\ pc = "wait"
    /\ now' = 0
    /\ result' = [status |-> "processing", prompt_id |-> prompt_id,
                  images |-> <<>>, images_by_var |-> <<>>,
                  videos |-> <<>>, videos_by_var |-> <<>>,
                  audios |-> <<>>, audios_by_var |-> <<>>,
                  texts |-> <<>>, texts_by_var |-> <<>>]
    /\ pc' = "loop"
    /\ UNCHANGED <<toolVars, data_workflow, request, workflow, output_id_2_var, prompt_id, response,
                   history, sent, submitted, resolved, polls, last_poll, trace>>

\* a loop whose deadline test never fires
_no_deadline(timeout, duration) ==
    FALSE

\* the deadline test with "timeout >= 0" for "timeout > 0"
_timed_out_zero(timeout, duration) ==
    ~timeout.isNone /\ timeout.v >= 0 /\ duration > timeout.v

\* the deadline test of lines 567-569
_timed_out(timeout, duration) ==
    ~timeout.isNone /\ timeout.v > 0 /\ duration > timeout.v

\* lines 565-573: the top of the loop
LoopTop ==
    /\ pc = "loop"
    /\ IF _timed_out(request.timeout, now)
       THEN /\ result' = Put(Put(result, "duration", now), "status", "timeout")
            /\ Return(result', 200)
            /\ trace' = Append(trace, Stage("wait", TRUE))
       ELSE /\ pc' = "poll"
            /\ UNCHANGED <<result, response, trace>>
    /\ UNCHANGED <<toolVars, data_workflow, request, workflow, output_id_2_var, prompt_id, now, history,
                   sent, submitted, resolved, polls, last_poll>>

\* lines 575-666: one history poll and what the loop does with it.  The
\* GET ends with the client raising, with a status other than 200, or with
\* status 200 and the engine's history for the prompt id.
Poll ==
    /\ pc = "poll"
    /\ polls' = polls + 1
    /\ \/ /\ last_poll' = "raise"
          /\ Return("error" :> <<"Cannot connect to host 127.0.0.1:8188">>, 500)
          /\ trace' = Append(trace, Stage("wait", FALSE))
          /\ UNCHANGED result
       \/ /\ last_poll' = "non200"
          /\ pc' = "sleep"
          /\ UNCHANGED <<result, response, trace>>
       \/ /\ ~history.present
          /\ last_poll' = "absent"
          /\ pc' = "sleep"
          /\ UNCHANGED <<result, response, trace>>
       \/ /\ Executing(history)
          /\ last_poll' = "executing"
          /\ pc' = "sleep"
          /\ UNCHANGED <<result, response, trace>>
       \/ /\ history.present
          /\ history.status.has /\ history.status.status_str = "error"
          /\ last_poll' = "error"
          /\ result' = Put(Put(result, "status", "error"),
                           "error", _error_message(history.status))
          /\ Return(result', 200)
          /\ trace' = Append(trace, Stage("wait", TRUE))
       \/ /\ history.present
          /\ ~(history.status.has /\ history.status.status_str = "error")
          /\ history.hasOutputs
          /\ last_poll' = "outputs"
          /\ result' = _completed(result, history.outputs,
                                  _get_base_url(request), output_id_2_var)
          /\ Return(result', 200)
          /\ trace' = Append(trace, Stage("wait", TRUE))
    /\ UNCHANGED <<toolVars, data_workflow, request, workflow, output_id_2_var, prompt_id, now, history,
                   sent, submitted, resolved>>

\* asyncio.sleep(1.0) of lines 579, 583, 667: the iteration took d seconds
Sleep ==
    /\ pc = "sleep"
    /\ \E d \in 1..MaxStep :
         /\ now + d <= MaxNow
         /\ now' = now + d
    /\ pc' = "loop"
    /\ UNCHANGED <<toolVars, data_workflow, request, workflow, output_id_2_var, prompt_id, result,
                   response, history, sent, submitted, resolved, polls,
                   last_poll, trace>>

\* the job engine writes or completes the prompt's history entry
Engine ==
    /\ pc \in {"wait", "loop", "poll", "sleep"}
    /\ \/ /\ ~history.present
          /\ history' \in HistoryEntries(now)
       \/ /\ Executing(history)
          /\ history' \in {h \in HistoryEntries(now) : ~Executing(h)}
    /\ UNCHANGED <<toolVars, data_workflow, request, pc, workflow, output_id_2_var, prompt_id, result,
                   response, now, sent, submitted, resolved, polls, last_poll, trace>>

Next ==
    \/ Classify
    \/ ApplyParams
    \/ ExtractOutputs
    \/ QueuePrompt
    \/ WaitStart
    \/ LoopTop
    \/ Poll
    \/ Sleep
    \/ Engine

Spec == Init /\ [][Next]_vars

\* the event loop resumes the poll loop's coroutine whenever it can run:
\* each deadline test, each poll and each sleep completes; the engine owes
\* nothing
LiveSpec == Spec /\ WF_vars(LoopTop) /\ WF_vars(Poll) /\ WF_vars(Sleep)

\* ------------------------------------------- UI to API conversion

\* a JSON list
UiList(elems) == [isDict |-> FALSE, isList |-> TRUE, elems |-> elems]

\* one entry of a UI node's "inputs": its name and its link id (hasLink
\* FALSE: "link" is null or absent)
Slot(name, hasLink, link) == [name |-> name, hasLink |-> hasLink, link |-> link]

\* a UI node; title "": no title, or an empty one; sr: the property
\* "Node name for S&R"
UiNode(id, type, title, hasSR, sr, inputs, widgets_values) ==
    [id |-> id, type |-> type, title |-> title, hasSR |-> hasSR, sr |-> sr,
     inputs |-> inputs, widgets_values |-> widgets_values]

\* a row of the links table: [link id, from node, from slot, ...]
UiLink(id, from_node, from_slot) ==
    [id |-> id, from_node |-> from_node, from_slot |-> from_slot]

\* a schema entry input.required[field]: hasMeta when it is a list longer
\* than one whose second element is a dict; control: that dict's
\* control_after_generate is truthy; default: its "default", when present
FieldInfo(hasMeta, control, hasDefault, default) ==
    [hasMeta |-> hasMeta, control |-> control, hasDefault |-> hasDefault,
     default |-> default]

\* the value of an API input: a link [from node, from slot] or a plain value
LinkVal(from_node, from_slot) == [isLink |-> TRUE, v |-> from_node, slot |-> from_slot]
PlainVal(v) == [isLink |-> FALSE, v |-> v, slot |-> 0]

\* str(n) of a node id
str(n) ==
    CASE n = 3 -> "3"
      [] n = 4 -> "4"
      [] n = 7 -> "7"
      [] OTHER -> "0"

control_values == {"randomize", "increment", "decrement", "fixed"}

RECURSIVE _find_link(_, _, _)
\* lines 67-72: the first row of the links table with this id
_find_link(links, link_id, i) ==
    IF i > Len(links) THEN [found |-> FALSE, value |-> LinkVal("", 0)]
    ELSE IF links[i].id = link_id
    THEN [found |-> TRUE, value |-> LinkVal(str(links[i].from_node), links[i].from_slot)]
    ELSE _find_link(links, link_id, i + 1)

RECURSIVE _link_inputs(_, _, _, _)
\* lines 63-72: write the links to inputs
_link_inputs(slots, links, i, inputs) ==
    IF i > Len(slots) THEN inputs
    ELSE LET l == _find_link(links, slots[i].link, 1)
         IN  _link_inputs(slots, links, i + 1,
                 IF slots[i].hasLink /\ l.found
                 THEN DictSet(inputs, slots[i].name, l.value)
                 ELSE inputs)

\* the fields no input slot marks as linked
_linked_fields_none(slots) == {}

\* line 74
_linked_fields(slots) ==
    {slots[i].name : i \in {i \in 1..Len(slots) : slots[i].hasLink}}

\* every field regenerates after use
_has_control_always(input_required, field) == TRUE

\* lines 93-98
_has_control_after_generate(input_required, field) ==
    /\ field \in DOMAIN input_required
    /\ input_required[field].hasMeta
    /\ input_required[field].control

RECURSIVE _assign_widgets(_, _, _, _, _, _, _)
\* lines 79-111: the loop over input_order from field k on; widget_idx is
\* the cursor (0-based)
_assign_widgets(input_order, k, widget_idx, widgets, linked_fields, input_required, inputs) ==
    IF k > Len(input_order) THEN inputs
    ELSE IF input_order[k] \in linked_fields
    THEN _assign_widgets(input_order, k + 1, widget_idx, widgets, linked_fields,
                         input_required, inputs)
    ELSE IF widget_idx >= Len(widgets) THEN inputs
    ELSE LET field == input_order[k]
             value == widgets[widget_idx + 1]
             idx1 == widget_idx + 1
             idx2 == IF /\ _has_control_after_generate(input_required, field)
                        /\ idx1 < Len(widgets)
                        /\ widgets[idx1 + 1] \in control_values
                     THEN idx1 + 1 ELSE idx1
         IN  _assign_widgets(input_order, k + 1, idx2, widgets, linked_fields,
                             input_required, DictSet(inputs, field, PlainVal(value)))

RECURSIVE _fill_defaults(_, _, _, _)
\* lines 113-119
_fill_defaults(input_order, k, input_required, inputs) ==
    IF k > Len(input_order) THEN inputs
    ELSE LET field == input_order[k]
         IN  _fill_defaults(input_order, k + 1, input_required,
                 IF /\ ~HasKey(inputs, field)
                    /\ field \in DOMAIN input_required
                    /\ input_required[field].hasMeta
                    /\ input_required[field].hasDefault
                 THEN DictSet(inputs, field, PlainVal(input_required[field].default))
                 ELSE inputs)

\* ui_json.get(key, [])
_get_list(ui, key) == IF HasKey(ui.items, key) THEN Get(ui.items, key).elems ELSE <<>>

NoSchema == [input_order |-> <<>>, required |-> <<>>]

\* lines 54-124: the API node of one UI node, as [k, v]
_convert_node(node, links, info) ==
    LET title == IF node.title # "" THEN node.title
                 ELSE IF node.hasSR THEN node.sr ELSE node.type
        node_info == IF node.type \in DOMAIN info THEN info[node.type] ELSE NoSchema
        inputs1 == _link_inputs(node.inputs, links, 1, <<>>)
        inputs2 == _assign_widgets(node_info.input_order, 1, 0, node.widgets_values,
                                   _linked_fields(node.inputs), node_info.required, inputs1)
        inputs3 == _fill_defaults(node_info.input_order, 1, node_info.required, inputs2)
    IN  Item(str(node.id),
             [inputs |-> inputs3, class_type |-> node.type, _meta |-> [title |-> title]])

\* ------------------------------------------------- the conversion tool

\* values the classifiers may be given besides a request's workflows (JSON
\* object keys are strings)
ClassifierInputs ==
    Workflows \cup
    { Dict(<<Item(<<"1">>, Untitled), Item(<<"1", "^2">>, Untitled)>>),
      Dict(<<Item(<<>>, Untitled)>>),
      Dict(<<Item(<<"1">>, Untitled), Item(<<"a">>, Untitled)>>),
      Dict(<<Item(<<"nodes">>, NonNode(FALSE))>>),
      Dict(<<Item(<<"1">>, Untitled), Item(<<"nodes">>, NonNode(TRUE))>>) }

\* the links table: link 5 comes from node 4 slot 0, link 6 from node 7 slot 1
Links == <<UiLink(5, 4, 0), UiLink(6, 7, 1)>>

Loader ==
    UiNode(4, "CheckpointLoaderSimple", "Load", FALSE, "", <<>>, <<"model.ckpt">>)

KSampler(inputs, widgets_values) ==
    UiNode(3, "KSampler", "", TRUE, "Sampler", inputs, widgets_values)

\* the input slots of the sampler: model linked, unlinked, linked by an id
\* the links table lacks, and steps linked as well
SlotLists ==
    { <<Slot("model", TRUE, 5)>>,
      <<Slot("model", FALSE, 0)>>,
      <<Slot("model", TRUE, 9)>>,
      <<Slot("model", TRUE, 5), Slot("steps", TRUE, 6)>> }

\* the sampler's widgets_values
WidgetLists ==
    { <<"12345", "randomize", "20", "euler">>,
      <<"12345", "20", "euler">>,
      <<"12345", "fixed">>,
      <<"randomize", "increment", "20">>,
      <<>> }

UiGraph(nodes) ==
    Dict(<<Item(<<"nodes">>, UiList(nodes)), Item(<<"links">>, UiList(Links))>>)

\* the UI workflows the converter may be given
UiGraphs ==
    {UiGraph(<<Loader, KSampler(sl, w)>>) : sl \in SlotLists, w \in WidgetLists}
    \cup {UiGraph(<<>>),
          Dict(<<Item(<<"nodes">>,
                      UiList(<<KSampler(<<Slot("model", TRUE, 5)>>, <<"12345", "20">>)>>))>>)}

NoInfo == FieldInfo(FALSE, FALSE, FALSE, "")

LoaderSchema ==
    [input_order |-> <<"ckpt_name">>, required |-> ("ckpt_name" :> NoInfo)]

\* the sampler's schema: the order of its required fields, whether seed and
\* steps carry control_after_generate
SamplerSchema(input_order, seed_control, steps_control) ==
    [input_order |-> input_order,
     required |-> ("model" :> NoInfo
                   @@ "seed" :> FieldInfo(TRUE, seed_control, TRUE, "default seed")
                   @@ "steps" :> FieldInfo(TRUE, steps_control, TRUE, "default steps"))]

\* the object_info the server may return; sampler_name has no entry in
\* input.required
ObjectInfos ==
    { ("CheckpointLoaderSimple" :> LoaderSchema
       @@ "KSampler" :> SamplerSchema(<<"model", "seed", "steps", "sampler_name">>, TRUE, FALSE)),
      ("CheckpointLoaderSimple" :> LoaderSchema
       @@ "KSampler" :> SamplerSchema(<<"model", "seed", "steps", "sampler_name">>, FALSE, FALSE)),
      ("CheckpointLoaderSimple" :> LoaderSchema
       @@ "KSampler" :> SamplerSchema(<<"seed", "model", "steps", "sampler_name">>, TRUE, TRUE)),
      ("CheckpointLoaderSimple" :> LoaderSchema) }

ToolInputs == ClassifierInputs \cup UiGraphs

\* the tool is started on one input; the request handler is not running
ToolInit ==
    /\ request = <<>>
    /\ pc = "idle"
    /\ workflow = <<>>
    /\ output_id_2_var = <<>>
    /\ prompt_id = <<>>
    /\ result = <<>>
    /\ response = NoResponse
    /\ now = 0
    /\ history = NoHistory
    /\ sent = <<>>
    /\ submitted = <<>>
    /\ resolved = <<>>
    /\ polls = 0
    /\ last_poll = "none"
    /\ trace = <<>>
    /\ data_workflow = <<>>
    /\ ui_json \in ToolInputs
    /\ object_info \in ObjectInfos
    /\ api = <<>>
    /\ labels = <<>>
    /\ node_idx = 0
    /\ cpc = "start"

handlerVars ==
    <<request, pc, workflow, output_id_2_var, prompt_id, result, response, now,
      history, sent, submitted, resolved, polls, last_poll, trace, data_workflow>>

\* both copies of adjust_workflow_format label the input
ToolClassify ==
    /\ cpc = "start"
    /\ labels' = [workflow_format |-> adjust_workflow_format(ui_json),
                  workflow_ui_2_api |-> ui2api_adjust_workflow_format(ui_json)]
    /\ cpc' = "classified"
    /\ UNCHANGED <<handlerVars, ui_json, object_info, api, node_idx>>

\* lines 53-124: one turn of convert_ui_to_api's loop over the nodes
ToolConvertNode ==
    /\ cpc \in {"classified", "convert"}
    /\ ui_json \in UiGraphs
    /\ node_idx < Len(_get_list(ui_json, <<"nodes">>))
    /\ LET node == _get_list(ui_json, <<"nodes">>)[node_idx + 1]
           item == _convert_node(node, _get_list(ui_json, <<"links">>), object_info)
       IN  api' = DictSet(api, item.k, item.v)
    /\ node_idx' = node_idx + 1
    /\ cpc' = "convert"
    /\ UNCHANGED <<handlerVars, ui_json, object_info, labels>>

\* line 125: return api
ToolReturn ==
    /\ cpc \in {"classified", "convert"}
    /\ ui_json \in UiGraphs
    /\ node_idx = Len(_get_list(ui_json, <<"nodes">>))
    /\ cpc' = "done"
    /\ UNCHANGED <<handlerVars, ui_json, object_info, api, labels, node_idx>>

ToolNext ==
    \/ ToolClassify
    \/ ToolConvertNode
    \/ ToolReturn

ToolSpec == ToolInit /\ [][ToolNext]_vars

\* ============================================================== claims

\* the stages run so far, as a set
Stages == {trace[i] : i \in 1..Len(trace)}

\* _wait_for_results has returned a result, which is the response's body
WaitReturned ==
    /\ pc = "done"
    /\ trace # <<>>
    /\ trace[Len(trace)] = Stage("wait", TRUE)

Returned(status) == WaitReturned /\ response.body["status"] = status

ArtifactKeys ==
    {"images", "images_by_var", "videos", "videos_by_var",
     "audios", "audios_by_var", "texts", "texts_by_var"}

\* the artifacts of type t that one node's output record holds
ArtifactsOf(node_output, t) ==
    LET m == _split_media_by_suffix(node_output, _get_base_url(request))
    IN  CASE t = "images" -> m.images
          [] t = "videos" -> m.videos
          [] t = "audios" -> m.audios
          [] t = "texts" -> IF node_output.hasText THEN _texts_of(node_output.text)
                            ELSE <<>>

\* some node of the outputs mapping produced an artifact of type t
Produced(outputs, t) ==
    \E i \in 1..Len(outputs) : ArtifactsOf(outputs[i].v, t) # <<>>

TypeSet == {ArtifactTypes[i] : i \in 1..Len(ArtifactTypes)}

\* C1: a response with status "timeout" carries status and prompt_id and
\* none of the eight artifact fields, not even empty ones.
C1_TimeoutHasNoArtifactFields ==
    Returned("timeout") =>
        /\ {"status", "prompt_id"} \subseteq DOMAIN response.body
        /\ DOMAIN response.body \cap ArtifactKeys = {}

\* C2: in a completed response, for each type T, T and T_by_var are present
\* exactly when some node produced an artifact of type T, and no present
\* artifact field is an empty list, an empty map or a map holding an empty
\* list.
C2_ArtifactFieldsIffProduced ==
    Returned("completed") =>
        \A t \in TypeSet :
            LET body == response.body
            IN  /\ (t \in DOMAIN body) <=> Produced(history.outputs, t)
                /\ (ByVar(t) \in DOMAIN body) <=> Produced(history.outputs, t)
                /\ t \in DOMAIN body => body[t] # <<>>
                /\ ByVar(t) \in DOMAIN body =>
                     /\ body[ByVar(t)] # <<>>
                     /\ \A i \in 1..Len(body[ByVar(t)]) : body[ByVar(t)][i].v # <<>>

InPollLoop == pc \in {"loop", "poll", "sleep"}

PositiveTimeout == ~request.timeout.isNone /\ request.timeout.v > 0

\* C3: with a positive timeout, whatever the polls answer, the loop
\* eventually returns unless a poll's client call raises, and each status it
\* returns is completed, timeout or error (never processing, never queued).
C3_PollLoopReturnsTerminal ==
    /\ [](WaitReturned => response.body["status"] \in {"completed", "timeout", "error"})
    /\ [](InPollLoop /\ PositiveTimeout => <>(WaitReturned \/ last_poll = "raise"))

C3_Witness ==
    /\ Returned("timeout")
    /\ PositiveTimeout
    /\ polls >= 2
    /\ last_poll = "executing"

\* the engine's entry for the prompt has its outputs and no error status
EngineHasOutputs ==
    /\ history.present
    /\ history.hasOutputs
    /\ ~(history.status.has /\ history.status.status_str = "error")

\* C4 (as claimed): timeout is returned only for a positive timeout that was
\* exceeded before the engine made outputs available: never when the
\* engine's outputs were there before the deadline, and never for a zero or
\* absent timeout.
C4_TimeoutOnlyIfEngineLate ==
    /\ Returned("timeout") =>
         /\ PositiveTimeout
         /\ response.body["duration"] > request.timeout.v
         /\ ~(EngineHasOutputs /\ history.at < request.timeout.v)
    /\ WaitReturned /\ ~PositiveTimeout =>
         response.body["status"] \in {"completed", "error"}

\* C4 (amended): timeout is returned only for a positive timeout, at a
\* deadline test that finds the elapsed time above it, and only while no poll
\* of the loop has answered with outputs or an error status; a poll that
\* answers with outputs makes the loop return completed; with a zero or
\* absent timeout every return is completed or error, on the poll that
\* showed the outputs or the error status.
C4_TimeoutOnlyPastDeadlineUnobserved ==
    /\ Returned("timeout") =>
         /\ PositiveTimeout
         /\ response.body["duration"] > request.timeout.v
         /\ last_poll \notin {"outputs", "error"}
    /\ last_poll = "outputs" => Returned("completed")
    /\ WaitReturned /\ ~PositiveTimeout =>
         /\ response.body["status"] \in {"completed", "error"}
         /\ last_poll \in {"outputs", "error"}

\* the engine had the outputs before the deadline and the loop timed out
C4_Witness ==
    /\ Returned("timeout")
    /\ EngineHasOutputs
    /\ history.at < request.timeout.v
    /\ last_poll = "absent"

\* C5: a history poll that fails at the transport level (a non-200 status,
\* or the client raising) leaves the loop polling; the request then ends
\* only by the timeout, never with an error.
C5_TransportFailureIsNoOp ==
    last_poll \in {"raise", "non200"} => InPollLoop \/ Returned("timeout")

\* C6: the error field of an error result is the newline-joined exception
\* text of the execution_error messages in order, or "Unknown error" when
\* there is none; never the empty string.
C6_ErrorTextOrUnknown ==
    Returned("error") =>
        LET texts == _errors(history.status.messages)
        IN  /\ response.body["error"] =
                 IF texts # <<>> THEN Join(texts, <<"\n">>) ELSE <<"Unknown error">>
            /\ response.body["error"] # <<>>

\* the caller has received an error response
ErrorResponse ==
    /\ response.sent
    /\ response.http = 500
    /\ DOMAIN response.body = {"error"}

\* the stripped segments of a title
Segments(title) ==
    LET parts == Split(title, ",") IN {Strip(parts[i]) : i \in 1..Len(parts)}

\* some node title has a bare $output segment or a $output. segment with an
\* empty name
MalformedOutput(items) ==
    \E i \in 1..Len(items) :
        /\ _is_valid_node(items[i].v)
        /\ Segments(items[i].v.title) \cap {<<"$", "output">>, <<"$", "output", ".">>} # {}

\* a media download or a media upload got a status other than 200
MediaFailed ==
    \E i \in 1..Len(sent) : sent[i].url # PromptUrl /\ sent[i].status # 200

\* every binding marker $p.f of the graph whose p is a key of params has
\* assigned its field f
FullyBound(items, params) ==
    \A i \in 1..Len(items) :
        _is_valid_node(items[i].v) =>
            \A seg \in Segments(items[i].v.title) :
                (/\ StartsWith(seg, <<"$">>)
                 /\ Contains(seg, ".")
                 /\ HasKey(params, SplitOnce(Tail(seg), ".")[1]))
                => /\ items[i].v.hasInputs
                   /\ HasKey(items[i].v.inputs, SplitOnce(Tail(seg), ".")[2])

\* C7: a request whose output registration fails (a malformed output
\* marker) or whose binding fails (a media download or upload fails) makes
\* no submission and ends with an error; a submitted graph is fully bound.
C7_FailedPreparationNeverSubmits ==
    /\ MalformedOutput(request.workflow.items) /\ Stage("classify", TRUE) \in Stages =>
         /\ submitted = <<>>
         /\ pc = "done" => ErrorResponse
    /\ MediaFailed =>
         /\ submitted = <<>>
         /\ pc = "done"
         /\ ErrorResponse
    /\ \A i \in 1..Len(submitted) :
         FullyBound(Get(submitted[i], <<"prompt">>), request.params)

\* the second of two media resolutions failed: the copy was partially bound
C7_Witness ==
    /\ MediaFailed
    /\ Len(resolved) = 2
    /\ ErrorResponse
    /\ submitted = <<>>

\* the queue endpoint answered the POST with a failure
SubmitFailed ==
    \E i \in 1..Len(sent) :
        /\ sent[i].url = PromptUrl
        /\ sent[i].status # 200 \/ sent[i].reply = <<>>

\* C8: the queue POST is issued at most once and only after classification,
\* binding and output registration have succeeded; a failed submission ends
\* the request with an error and no history poll.
C8_SubmitOnceAfterPreparation ==
    /\ Len(submitted) <= 1
    /\ Cardinality({i \in 1..Len(sent) : sent[i].url = PromptUrl}) = Len(submitted)
    /\ submitted # <<>> =>
         /\ Stage("classify", TRUE) \in Stages
         /\ Stage("extract", TRUE) \in Stages
         /\ request.params # <<>> => Stage("bind", TRUE) \in Stages
         /\ Stages \cap {Stage("classify", FALSE), Stage("bind", FALSE),
                         Stage("extract", FALSE)} = {}
         /\ ~MediaFailed
         /\ ~MalformedOutput(request.workflow.items)
    /\ SubmitFailed =>
         /\ pc = "done"
         /\ ErrorResponse
         /\ polls = 0
         /\ last_poll = "none"

\* a 200 answer without prompt_id, for a caller who waits
C8_Witness ==
    /\ SubmitFailed
    /\ sent[Len(sent)].status = 200
    /\ request.wait_for_result
    /\ request.params # <<>>
    /\ ErrorResponse

\* the variable name of an output node: its marker's name, else its id
VarOf(node_id) ==
    IF HasKey(output_id_2_var, node_id) THEN Get(output_id_2_var, node_id)
    ELSE node_id

\* C9: in a completed response every node that produced artifacts of type T
\* has all of them in T_by_var under its variable name, and each of them is
\* in the flat list T.
C9_ArtifactsUnderTheirVariable ==
    Returned("completed") =>
        \A i \in 1..Len(history.outputs) : \A t \in TypeSet :
            LET arts == ArtifactsOf(history.outputs[i].v, t)
                var == VarOf(history.outputs[i].k)
                body == response.body
            IN  arts # <<>> =>
                  /\ ByVar(t) \in DOMAIN body
                  /\ HasKey(body[ByVar(t)], var)
                  /\ Get(body[ByVar(t)], var) = arts
                  /\ t \in DOMAIN body
                  /\ \A j \in 1..Len(arts) : \E k \in 1..Len(body[t]) : body[t][k] = arts[j]

\* the names of a title's $output.<name> segments
OutputNames(title) ==
    {SubSeq(seg, 4, Len(seg)) :
        seg \in {x \in Segments(title) :
                    StartsWith(x, <<"$", "output", ".">>) /\ Len(x) > 3}}

\* the fields a title's other $param.field segments name
BindingFields(title) ==
    {SplitOnce(Tail(seg), ".")[2] :
        seg \in {x \in Segments(title) :
                    /\ StartsWith(x, <<"$">>)
                    /\ Contains(x, ".")
                    /\ ~StartsWith(x, <<"$", "output", ".">>)}}

\* the value of a node's input field ([has, v])
Field(node, f) ==
    IF node.hasInputs /\ HasKey(node.inputs, f)
    THEN [has |-> TRUE, v |-> Get(node.inputs, f)]
    ELSE [has |-> FALSE, v |-> Str(<<>>)]

\* C10: a $output.<name> segment is an output marker and no binding marker:
\* binding leaves the node's input field <name> as it was, whatever params
\* holds, and registration names the node <name>; for the title
\* "Prompt, $text.prompt, $output.final" the one binding sets prompt from text.
C10_OutputMarkerIsNoBinding ==
    \A i \in 1..Len(request.workflow.items) :
        LET before == request.workflow.items[i].v
            after == workflow[i].v
        IN  _is_valid_node(before) =>
            /\ Stage("bind", TRUE) \in Stages =>
                 \A name \in OutputNames(before.title) \ BindingFields(before.title) :
                     Field(after, name) = Field(before, name)
            /\ Stage("bind", TRUE) \in Stages /\ before.title = TitlePrompt
                 /\ HasKey(request.params, <<"text">>) =>
                 Field(after, <<"prompt">>) =
                     [has |-> TRUE, v |-> Get(request.params, <<"text">>)]
            /\ Stage("extract", TRUE) \in Stages /\ before.title = TitlePrompt =>
                 VarOf(request.workflow.items[i].k) = <<"final">>


\* the segments of a title that begin with $, hold no "." and are not
\* exactly $output
MalformedBindings(title) ==
    {seg \in Segments(title) :
        StartsWith(seg, <<"$">>) /\ ~Contains(seg, ".") /\ seg # <<"$", "output">>}

\* C11: a segment that begins with $, holds no "." and is not exactly
\* $output is ignored: it aborts neither binding nor output registration,
\* it yields no marker, and the other segments of its title are processed.
C11_MalformedBindingIgnored ==
    \A i \in 1..Len(request.workflow.items) :
        LET before == request.workflow.items[i].v
            id == request.workflow.items[i].k
        IN  (_is_valid_node(before) /\ MalformedBindings(before.title) # {}) =>
            /\ Stage("extract", FALSE) \in Stages =>
                   MalformedOutput(request.workflow.items)
            /\ Stage("bind", FALSE) \in Stages => MediaFailed
            /\ Stage("bind", TRUE) \in Stages =>
                   \A f \in BindingFields(before.title) :
                       \A seg \in Segments(before.title) :
                           (/\ StartsWith(seg, <<"$">>) /\ Contains(seg, ".")
                            /\ SplitOnce(Tail(seg), ".")[2] = f
                            /\ HasKey(request.params, SplitOnce(Tail(seg), ".")[1]))
                           => Field(workflow[i].v, f).has
            /\ Stage("extract", TRUE) \in Stages =>
                   (HasKey(output_id_2_var, id) =>
                       Get(output_id_2_var, id) \in OutputNames(before.title))


RECURSIVE MarkersFrom(_, _, _, _)
\* the binding markers $param.field of the graph whose param is a key of
\* params, in the order of the nodes and of each title's segments, from
\* segment j of node i on: [node, field, value, media]
MarkersFrom(items, params, i, j) ==
    IF i > Len(items) THEN <<>>
    ELSE IF ~_is_valid_node(items[i].v) THEN MarkersFrom(items, params, i + 1, 1)
    ELSE LET parts == Split(items[i].v.title, ",")
         IN  IF j > Len(parts) THEN MarkersFrom(items, params, i + 1, 1)
             ELSE LET seg == Strip(parts[j])
                      is == /\ StartsWith(seg, <<"$">>) /\ Contains(seg, ".")
                            /\ HasKey(params, SplitOnce(Tail(seg), ".")[1])
                      value == Get(params, SplitOnce(Tail(seg), ".")[1])
                  IN  (IF is
                       THEN <<[node |-> i, field |-> SplitOnce(Tail(seg), ".")[2],
                               value |-> value,
                               media |-> /\ items[i].v.class_type \in MEDIA_UPLOAD_NODE_TYPES
                                         /\ value.isStr
                                         /\ \/ StartsWith(value.v, <<"http://">>)
                                            \/ StartsWith(value.v, <<"https://">>)]>>
                       ELSE <<>>)
                      \o MarkersFrom(items, params, i, j + 1)

Markers == MarkersFrom(request.workflow.items, request.params, 1, 1)

IsMedia(m) == m.media

IsUpload(x) == x.op = "POST" /\ x.url = UploadUrl

BoundFields(i) ==
    {Markers[k].field : k \in {k \in 1..Len(Markers) : Markers[k].node = i}}

IsDecimal(key) ==
    key # <<>> /\ \A i \in 1..Len(key) : key[i] \in {"0", "1", "2", "3", "12"}

\* C14: classification is total and exclusive and both copies agree: "ui"
\* iff the input is a mapping with key nodes holding a list; "api" iff it
\* is not "ui" and is a non-empty mapping whose every key is a string of
\* decimal digits; "invalid" otherwise.
C14_ClassificationTotalAndEqual ==
    cpc = "classified" =>
        LET isUi == /\ ui_json.isDict
                    /\ HasKey(ui_json.items, <<"nodes">>)
                    /\ Get(ui_json.items, <<"nodes">>).isList
            isApi == /\ ~isUi
                     /\ ui_json.isDict
                     /\ ui_json.items # <<>>
                     /\ \A i \in 1..Len(ui_json.items) : IsDecimal(ui_json.items[i].k)
        IN  /\ labels.workflow_format = labels.workflow_ui_2_api
            /\ labels.workflow_format \in {"ui", "api", "invalid"}
            /\ labels.workflow_format = "ui" <=> isUi
            /\ labels.workflow_format = "api" <=> isApi
            /\ labels.workflow_format = "invalid" <=> ~isUi /\ ~isApi


\* the steps run so far, in order
Steps == [i \in 1..Len(trace) |-> trace[i].step]

\* step a has not run after step b
NotAfter(a, b) ==
    \A i, j \in 1..Len(trace) : (Steps[i] = a /\ Steps[j] = b) => i < j

\* C15: output registration runs before binding and binding before
\* submission, so a request rejected for a malformed output marker has
\* made no media download or upload.
C15_RegistrationBeforeBinding ==
    /\ NotAfter("extract", "bind")
    /\ NotAfter("bind", "submit")
    /\ Stage("extract", FALSE) \in Stages =>
          /\ resolved = <<>>
          /\ sent = <<>>


\* the UI nodes given to the converter
UiNodes == _get_list(ui_json, <<"nodes">>)

\* the schema's required fields of a node, in order, and their entries
OrderOf(node) ==
    IF node.type \in DOMAIN object_info THEN object_info[node.type].input_order ELSE <<>>

RequiredOf(node) ==
    IF node.type \in DOMAIN object_info THEN object_info[node.type].required ELSE <<>>

\* the fields of a node whose input slot has a non-null link
Linked(node) ==
    {node.inputs[i].name : i \in {i \in 1..Len(node.inputs) : node.inputs[i].hasLink}}

\* the rows of the links table a field's input slot resolves to
LinkRows(node, f) ==
    LET links == _get_list(ui_json, <<"links">>)
    IN  {links[j] : j \in {j \in 1..Len(links) :
            \E i \in 1..Len(node.inputs) :
                /\ node.inputs[i].name = f
                /\ node.inputs[i].hasLink
                /\ node.inputs[i].link = links[j].id}}

\* the field carries the regenerate-after-use control
Regenerates(node, f) ==
    /\ f \in DOMAIN RequiredOf(node)
    /\ RequiredOf(node)[f].hasMeta
    /\ RequiredOf(node)[f].control

RECURSIVE CursorBefore(_, _)
\* the 1-based position of the widget cursor when field k of the node's
\* required fields is visited: linked fields leave it, an unlinked field
\* takes one value, and a regenerating one also the control token after it
CursorBefore(node, k) ==
    IF k = 1 THEN 1
    ELSE LET p == CursorBefore(node, k - 1)
             f == OrderOf(node)[k - 1]
             w == node.widgets_values
         IN  IF f \in Linked(node) \/ p > Len(w) THEN p
             ELSE IF Regenerates(node, f) /\ p + 1 <= Len(w) /\ w[p + 1] \in control_values
             THEN p + 2
             ELSE p + 1

\* the index of the next required field after k that no link covers (0: none)
NextUnlinked(node, k) ==
    LET later == {g \in (k + 1)..Len(OrderOf(node)) : OrderOf(node)[g] \notin Linked(node)}
    IN  IF later = {} THEN 0 ELSE CHOOSE g \in later : \A h \in later : g <= h

\* the API inputs the converter produced for a node
OutInputs(node) == Get(api, str(node.id)).inputs

\* the API input f of the node is the plain value v
BoundTo(node, f, v) ==
    HasKey(OutInputs(node), f) /\ Get(OutInputs(node), f) = PlainVal(v)

\* C16: a required field whose input slot has a link that resolves gets
\* [from node as string, from slot] and consumes no widget value: the next
\* required field without a link gets the value the cursor pointed to
\* before the linked field was visited.
C16_LinkWinsAndKeepsCursor ==
    cpc = "done" =>
        \A n \in 1..Len(UiNodes) :
            LET node == UiNodes[n]
                w == node.widgets_values
            IN  \A k \in 1..Len(OrderOf(node)) :
                    LET f == OrderOf(node)[k]
                        g == NextUnlinked(node, k)
                        p == CursorBefore(node, k)
                    IN  LinkRows(node, f) # {} =>
                        /\ HasKey(OutInputs(node), f)
                        /\ \E l \in LinkRows(node, f) :
                              Get(OutInputs(node), f) = LinkVal(str(l.from_node), l.from_slot)
                        /\ (g # 0 /\ p <= Len(w)) => BoundTo(node, OrderOf(node)[g], w[p])

\* a linked field in the middle of the schema, after a consumed value and
\* before a field that takes the next one
C16_Witness ==
    /\ cpc = "done"
    /\ \E n \in 1..Len(UiNodes) :
          \E k \in 2..Len(OrderOf(UiNodes[n])) :
              /\ LinkRows(UiNodes[n], OrderOf(UiNodes[n])[k]) # {}
              /\ NextUnlinked(UiNodes[n], k) # 0
              /\ CursorBefore(UiNodes[n], k) > 1
              /\ CursorBefore(UiNodes[n], k) <= Len(UiNodes[n].widgets_values)

\* C17: an unlinked required field with the regenerate control gets the
\* value at the cursor, and a control token right after it is consumed and
\* bound to no field: the next unlinked field gets the value after the
\* token; a field without the control never skips the value after its own.
C17_ControlTokenSkipped ==
    cpc = "done" =>
        \A n \in 1..Len(UiNodes) :
            LET node == UiNodes[n]
                w == node.widgets_values
            IN  \A k \in 1..Len(OrderOf(node)) :
                    LET f == OrderOf(node)[k]
                        g == NextUnlinked(node, k)
                        p == CursorBefore(node, k)
                        token == p + 1 <= Len(w) /\ w[p + 1] \in control_values
                    IN  (f \notin Linked(node) /\ p <= Len(w)) =>
                        /\ BoundTo(node, f, w[p])
                        /\ (g # 0 /\ Regenerates(node, f) /\ token) =>
                              IF p + 2 <= Len(w)
                              THEN BoundTo(node, OrderOf(node)[g], w[p + 2])
                              ELSE ~BoundTo(node, OrderOf(node)[g], w[p + 1])
                        /\ (g # 0 /\ ~(Regenerates(node, f) /\ token) /\ p + 1 <= Len(w)) =>
                              BoundTo(node, OrderOf(node)[g], w[p + 1])

\* seed took 12345, "randomize" was skipped and steps took the value after it
C17_Witness ==
    /\ cpc = "done"
    /\ \E n \in 1..Len(UiNodes) :
          /\ UiNodes[n].widgets_values = <<"12345", "randomize", "20", "euler">>
          /\ Regenerates(UiNodes[n], "seed")
          /\ BoundTo(UiNodes[n], "seed", "12345")
          /\ BoundTo(UiNodes[n], "steps", "20")


\* C18: the body posted to the queue endpoint has prompt equal to the
\* request's bound graph and client_id equal to the id generated for the
\* request, whatever prompt_ext_params holds.
C18_SubmittedBodyIsOwnGraph ==
    \A i \in 1..Len(submitted) :
        /\ HasKey(submitted[i], <<"prompt">>)
        /\ Get(submitted[i], <<"prompt">>) = workflow
        /\ HasKey(submitted[i], <<"client_id">>)
        /\ Get(submitted[i], <<"client_id">>) = ClientId

=============================================================================
